---------------------------- MODULE Spec2Model ----------------------------
(***************************************************************************)
(* A model of the superconducting-RF simulator of slaclab/simulacrum:      *)
(*   - CavityPVGroup, SSAPVGroup, StepperPVGroup, PiezoPVGroup,            *)
(*     JTPVGroup, HeaterPVGroup, CryomodulePVGroup, LiquidLevelPVGroup     *)
(*     of src/sc_rf_service/sc_rf_service.py;                              *)
(*   - SimulacrumCavity and SimulacrumCM of                                *)
(*     src/sc_rf_service/sc_rf_refactored_service.py.                      *)
(*                                                                         *)
(* Process variables.  A caproto channel calls its putter from write()     *)
(* BEFORE the new value is stored: inside a putter the channel still holds *)
(* the previous value, and the written value is stored when the putter     *)
(* returns.  A write to a channel without a putter only stores the value.  *)
(*                                                                         *)
(* Scheduling.  Handlers are coroutines of one asyncio event loop: a       *)
(* handler runs without interruption up to its next `await sleep(..)`.     *)
(* Every action below is one such uninterrupted stretch.  A sleeping       *)
(* coroutine is resumed by the step of the clock (Tick) that follows its   *)
(* sleep; external writes arrive at any time, each served in a coroutine   *)
(* of its own.                                                             *)
(*                                                                         *)
(* Enumerations.  A caproto enum channel stores what it is given: the     *)
(* integer of its declaration until it is first written, and from then on  *)
(* the choice string that write() makes of the written value.  A client    *)
(* reads the same choice in both cases; a comparison of `.value` in the    *)
(* code does not.                                                          *)
(*                                                                         *)
(* Numbers.  Amplitudes and gradients are integers in units of 1/Unit MV   *)
(* (MV/m); the lengths 1.038 = 519/500 and 0.346 = 173/500 then divide     *)
(* and multiply exactly on the written values, which are whole multiples   *)
(* of Unit (IEEE doubles round-trip v / length * length on these values    *)
(* as well).  Liquid levels are integers in hundredths of a percent, heat  *)
(* loads and valve positions integers in hundredths.                       *)
(***************************************************************************)
EXTENDS Integers, Sequences, FiniteSets, TLC

\* ------------------------------------------------------------------------
\* Bounds of the model
\* ------------------------------------------------------------------------

\* number of cavities of the modelled cryomodule (8 in the program)
NCav == 2

\* handler coroutines that may be in flight at the same time
MaxTasks == 2

\* nested putter calls followed before the model gives up on a chain
MaxNest == 4

\* stepper moves started in one behaviour
MaxMoves == 2

\* seconds of simulated time followed by the cryogenic specifications
MaxTicks == 2

\* client writes served by the SimulacrumCM and its cavities
MaxWrites == 3

\* the downstream levels (hundredths of a percent) between which the model
\* follows the unguarded loops of JTPVGroup and HeaterPVGroup
LevelFloor == 6900

LevelCeil == 10100

\* passes of the loop of a stepper move counted by the move's history
MaxPasses == 3

\* await sleep(5) of SSAPVGroup.cal_start, in seconds
CalSleep == 5

\* one amplitude / gradient unit: 1 MV (MV/m) = Unit model units
Unit == 500 * 519

Cavs == 1 .. NCav

\* the integer i a pvproperty of dtype ENUM is declared with (value=i), as
\* the channel holds it until its first write
Index(i) == <<"#0", "#1", "#2", "#3">>[i + 1]

\* the choice a client reads from an enum channel that holds v
Shown(enum_strings, v) ==
    IF \E i \in 1 .. Len(enum_strings) : v = Index(i - 1)
    THEN enum_strings[CHOOSE i \in 1 .. Len(enum_strings) : v = Index(i - 1)]
    ELSE v

\* enum_strings of RFCTRL and RFSTATE
OffOn == <<"Off", "On">>

\* enum_strings of PowerOn and PowerOff
FalseTrue == <<"False", "True">>

\* the first choices of StatusMsg
StatusMsgs == <<"Unknown", "Faulted", "SSA Off", "SSA On">>

\* enum_strings of AlarmSummary and of a SeverityProp
Severities == <<"NO_ALARM", "MINOR", "MAJOR", "INVALID">>

\* enum_strings of CALSTS and CALSTAT
CalStatuses == <<"Crash", "Complete", "Running">>

CalStats == <<"Success", "Crash">>

\* enum_strings of STAT_MOV and STAT_DONE
MovingStrings == <<"Not Moving", "Moving">>

DoneStrings == <<"Not Done", "Done">>

\* enum_strings of ENABLESTAT, and of MODECTRL and MODESTAT
EnableStrings == <<"Disabled", "Enabled">>

ModeStrings == <<"Manual", "Feedback">>

\* Values written to ADES (amplitudes) and GDES (gradients) by clients.
\* 10 MV and 10 MV/m divide and multiply exactly by both lengths.  The
\* amplitude 14 units above does not with the length 1.038, nor the
\* gradient one unit above with the length 0.346: value / length * length
\* is then another number, as it is in doubles for 0.17 / 1.038 * 1.038 =
\* 0.17000000000000004 and for 0.39 * 0.346 / 0.346 = 0.39000000000000007.
AmpInputs == {0, 10 * Unit, 10 * Unit + 14}

GradInputs == {10 * Unit, 10 * Unit + 1}

\* amplitudes and gradients on which the chains of putter calls are counted
ChainInputs == {10 * Unit + k : k \in 0 .. 40}

\* the amplitudes written where only the heat they give matters
HeatAmpInputs == {0, 10 * Unit}

\* landing_freq, drawn once when the class is defined (randrange(-10000, 10000))
LandingFreqs == {-7}

\* values written to VELO (steps per tick) and NSTEPS (requested steps)
Speeds == {100}

StepRequests == {250}

\* values written to VELO where a move is followed for as long as it runs
SpeedsLive == {0, 100}

\* values written to the piezo's MODECTRL and ENABLESTAT
ModeInputs == {"Manual", "Feedback"}

EnableInputs == {"Disabled"}

Tasks == 1 .. MaxTasks

\* Q0 in units of 1e9, drawn once when the class is defined
\* (randrange(int(2.5e10), int(3.5e10), step=int(0.1e10)))
Q0s == {30}

\* values written to the JT valve's and the heater's MANPOS_RQST, in hundredths
ValveInputs == {3000}

\* the same where one activation is followed at a time: 40.00 is the value
\* MANPOS_RQST is declared with
ValveInputsAlone == {3000, 4000}

HeaterInputs == {0, 2400}

\* values written to a cavity's AACT, in hundredths of a MV
AactInputs == {0, 1660}

HeaterModes == {"MANUAL", "SEQUENCER"}

\* uniform(0.5, 1.5), in tenths
Slopes == {5, 15}

\* Downstream levels (hundredths of a percent) a behaviour starts from: 93.00
\* as constructed, and 70.01 and 99.99, one step inside the band [70, 100]
\* that the refactored loop guards, as earlier runs of the loops leave them.
StartLevels == {7001, 9300, 9999}

\* setpoints and stable heat loads on which the two tests of
\* adjust_liquid_level are compared
GuardInputs == 0 .. 12

\* values written to PDES: whole degrees below, within and above [0, 360),
\* and 1e-14 degrees on either side of 0
PhaseInputs ==
    {[deg |-> d, eps |-> 0] : d \in {-720, -90, 0, 90, 360, 450}}
    \cup {[deg |-> 0, eps |-> e] : e \in {-1, 1}}

\* ------------------------------------------------------------------------
\* State
\* ------------------------------------------------------------------------
VARIABLES
    is_hl,          \* CavityPVGroup.is_hl of the cryomodule's cavities
    cavities,       \* cavity number -> the CavityPVGroup's channels
    ssas,           \* cavity number -> the SSAPVGroup's channels
    pcycle,         \* history: progress of a power_on; power_off; power_on
                    \* sequence on cavity 1 and the desired values at its start
    stepper,        \* the StepperPVGroup's channels (cavity 1)
    piezo,          \* the PiezoPVGroup's channels (cavity 1)
    moves,          \* task -> a StepperPVGroup.move coroutine: its locals,
                    \* where it stands, and the history of what it did
    nmoves,         \* history: moves started so far
    q0,             \* CavityPVGroup.q0 (units of 1e9)
    ll,             \* the LiquidLevelPVGroup's channels
    jt,             \* the JTPVGroup's channels and its stable_value
    heater,         \* the HeaterPVGroup's channels
    cryomodule,     \* CryomodulePVGroup: heater_value
    jobs,           \* task -> a man_pos or setpoint putter in flight
    nticks,         \* seconds passed
    cm,             \* SimulacrumCM: its channels and jt_stable_pos
    cm_aact,        \* SimulacrumCavity: the AACT channel of each cavity
    cmjobs,         \* task -> a putter of the SimulacrumCM in flight
    cmwrites,       \* client writes served so far by the SimulacrumCM
    ssacal,         \* the SSAPVGroup's calibration channels (cavity 1)
    cals,           \* task -> a SSAPVGroup.cal_start putter in flight
    phase           \* the phase channels PDES, PACT and PMEAN (cavity 1)

cavVars == <<cavities, ssas, pcycle>>

stepVars == <<stepper, piezo, moves, nmoves>>

jtVars == <<q0, ll, jt, heater, cryomodule, jobs, nticks>>

cmVars == <<cm, cm_aact, cmjobs, cmwrites>>

cryoVars == <<jtVars, cmVars>>

calVars == <<ssacal, cals>>

vars == <<is_hl, cavVars, stepVars, cryoVars, calVars, phase>>

\* ------------------------------------------------------------------------
\* CavityPVGroup
\* ------------------------------------------------------------------------

\* x * n / d rounded down, for x >= 0
MulDiv_Floor(x, n, d) == (x \div d) * n + ((x % d) * n) \div d

\* x * n / d rounded to the nearest unit as a product or a quotient of
\* doubles is rounded to the nearest double, for x >= 0; the product is kept
\* within 32 bits
MulDiv(x, n, d) == (x \div d) * n + ((x % d) * n + d \div 2) \div d

\* value / self.length
DivLength(v) == IF is_hl THEN MulDiv(v, 500, 173) ELSE MulDiv(v, 500, 519)

\* value * self.length
MulLength(g) == IF is_hl THEN MulDiv(g, 173, 500) ELSE MulDiv(g, 519, 500)

\* the channels of a CavityPVGroup as declared
CavityInit(landing_freq) ==
    [ades |-> (166 * Unit) \div 10, aact |-> (166 * Unit) \div 10,
     amean |-> (166 * Unit) \div 10,
     gdes |-> 16 * Unit, gact |-> 16 * Unit,
     rf_state_des |-> Index(1), rf_state_act |-> Index(1),
     detune |-> landing_freq, detune_rfs |-> landing_freq,
     nest |-> 0]

\* ades.write(value) and gdes.write(value): the putter, then the store.
\* `nest` counts the putter calls of the chain; `n` is the depth left.
RECURSIVE AdesWrite(_, _, _)
RECURSIVE GdesWrite(_, _, _)

AdesPutter(cav, value, n) ==
    LET c1 == [cav EXCEPT !.aact = value, !.amean = value,
                          !.nest = cav.nest + 1]
        gradient == DivLength(value)
    IN  IF c1.gact # gradient /\ n > 0
        THEN GdesWrite(c1, gradient, n - 1)
        ELSE c1

GdesPutter(cav, value, n) ==
    LET c1 == [cav EXCEPT !.gact = value, !.nest = cav.nest + 1]
        amplitude == MulLength(value)
    IN  IF c1.aact # amplitude /\ n > 0
        THEN AdesWrite(c1, amplitude, n - 1)
        ELSE c1

AdesWrite(cav, value, n) == [AdesPutter(cav, value, n) EXCEPT !.ades = value]

GdesWrite(cav, value, n) == [GdesPutter(cav, value, n) EXCEPT !.gdes = value]

\* power_off that leaves the actual gradient
power_off_KeepsGradient(cav) ==
    [cav EXCEPT !.amean = 0, !.aact = 0, !.rf_state_act = "Off"]

power_off(cav) ==
    [cav EXCEPT !.amean = 0, !.aact = 0, !.gact = 0, !.rf_state_act = "Off"]

\* power_on that forgets the gradient
power_on_NoGradient(cav) ==
    [cav EXCEPT !.aact = cav.ades, !.amean = cav.ades, !.rf_state_act = "On"]

power_on(cav) ==
    [cav EXCEPT !.aact = cav.ades, !.amean = cav.ades, !.gact = cav.gdes,
                !.rf_state_act = "On"]

\* rf_state_des.write(value): the putter, then the store
RfStateDesWrite(cav, value) ==
    LET c1 == IF value = "Off" THEN power_off(cav)
              ELSE IF value = "On" THEN power_on(cav)
              ELSE cav
    IN  [c1 EXCEPT !.rf_state_des = value]

\* ------------------------------------------------------------------------
\* CavityPVGroup: phase
\* ------------------------------------------------------------------------

\* A phase is a float that is either a whole number of degrees (eps = 0) or
\* a quantity of eps * 1e-14 degrees (deg = 0).  1e-14 is less than half the
\* spacing 2^-44 of the floats just below 360, so 360 - 1e-14 is not a float
\* and the nearest one is 360.0.
Deg(d) == [deg |-> d, eps |-> 0]

Eps(e) == [deg |-> 0, eps |-> e]

IsNegative(x) == x.deg < 0 \/ (x.deg = 0 /\ x.eps < 0)

IsZero(x) == x.deg = 0 /\ x.eps = 0

\* C's fmod(x, 360): exact, with the sign of x
Fmod360(x) ==
    [deg |-> IF x.deg < 0 THEN 0 - ((0 - x.deg) % 360) ELSE x.deg % 360,
     eps |-> x.eps]

\* the float sum x + 360.0 for -360 < x < 0, rounded to the nearest float
Plus360(x) == Deg(x.deg + 360)

\* Python's value % 360 on floats: fmod, then 360 added to a remainder of
\* the other sign
PyMod360(value) ==
    LET mod == Fmod360(value)
    IN  IF IsZero(mod) THEN Deg(0)
        ELSE IF IsNegative(mod) THEN Plus360(mod)
        ELSE mod

\* PDES, PMEAN and PACT as declared
PhaseInit == [pdes |-> Deg(0), pact |-> Deg(0), pmean |-> Deg(0)]

\* ------------------------------------------------------------------------
\* SSAPVGroup
\* ------------------------------------------------------------------------

\* The channels of an SSAPVGroup as declared.  `reported` is the history of
\* the latest request: the values it wrote to status_msg, in the order of
\* the writes, each write being published to the channel's subscribers.
SSAInit ==
    [on |-> Index(1), off |-> Index(0), status_msg |-> Index(3),
     alarm_sum |-> Index(0), fault_sum |-> Index(0), reported |-> <<>>]

\* The on putter.  Its result is the pair <<ssa, cavity>>; `off.write("False")`
\* runs the off putter with "False", which does nothing, and stores "False".
SSAOnPutter(ssa, cav, value) ==
    IF value = "True" /\ ssa.status_msg # "SSA On"
    THEN <<[ssa EXCEPT !.status_msg = "SSA On", !.off = "False",
                       !.reported = <<"Resetting Faults...",
                                      "Powering ON...", "SSA On">>],
           IF cav.rf_state_des = "On" THEN power_on(cav) ELSE cav>>
    ELSE <<[ssa EXCEPT !.reported = <<>>], cav>>

\* an off putter that leaves PowerOn as it is
SSAOffPutter_KeepsOn(ssa, cav, value) ==
    IF value = "True" /\ ssa.status_msg # "SSA Off"
    THEN <<[ssa EXCEPT !.status_msg = "SSA Off",
                       !.reported = <<"Powering Off...", "SSA Off">>],
           power_off(cav)>>
    ELSE <<[ssa EXCEPT !.reported = <<>>], cav>>

\* The off putter; `on.write("False")` likewise only stores "False".
SSAOffPutter(ssa, cav, value) ==
    IF value = "True" /\ ssa.status_msg # "SSA Off"
    THEN <<[ssa EXCEPT !.status_msg = "SSA Off", !.on = "False",
                       !.reported = <<"Powering Off...", "SSA Off">>],
           power_off(cav)>>
    ELSE <<[ssa EXCEPT !.reported = <<>>], cav>>

\* ------------------------------------------------------------------------
\* SSAPVGroup: calibration (cavity 1)
\* ------------------------------------------------------------------------

\* the calibration channels as declared
SSACalInit ==
    [cal_status |-> Index(1), cal_stat |-> Index(0),
     slope_old |-> 0, slope_new |-> 0]

NoCal == [pc |-> "idle", left |-> 0]

\* cal_start up to its sleep
cal_start_head(s) == [s EXCEPT !.cal_status = "Running"]

\* a cal_start whose sleep never writes the status again
cal_start_tail_StaysRunning(s, slope, crashed) ==
    [s EXCEPT !.slope_new = slope,
              !.cal_stat = IF crashed THEN "Crash" ELSE "Success"]

\* cal_start after its sleep: slope is uniform(0.5, 1.5), crashed is
\* random() < 0.2
cal_start_tail(s, slope, crashed) ==
    [s EXCEPT !.cal_status = "Complete",
              !.slope_new = slope,
              !.cal_stat = IF crashed THEN "Crash" ELSE "Success"]

Calibrating(t) == cals[t].pc # "idle"

\* a client writes CALSTRT
SSA_cal_start(t) ==
    /\ ~Calibrating(t)
    /\ \A u \in Tasks : u < t => Calibrating(u)
    /\ ssacal' = cal_start_head(ssacal)
    /\ cals' = [cals EXCEPT ![t] = [pc |-> "sleep", left |-> CalSleep]]
    /\ UNCHANGED <<is_hl, phase, cavVars, stepVars, cryoVars>>

\* a calibration whose five seconds have passed goes on and returns
SSA_cal_resume(t) ==
    /\ cals[t].pc = "ready"
    /\ \E slope \in Slopes, crashed \in BOOLEAN :
          ssacal' = cal_start_tail(ssacal, slope, crashed)
    /\ cals' = [cals EXCEPT ![t] = NoCal]
    /\ UNCHANGED <<is_hl, phase, cavVars, stepVars, cryoVars>>

\* one second passes
CalTick ==
    /\ \E t \in Tasks : cals[t].pc = "sleep"
    /\ \A t \in Tasks : cals[t].pc # "ready"
    /\ cals' = [t \in Tasks |->
                  IF cals[t].pc = "sleep"
                  THEN IF cals[t].left = 1
                       THEN [pc |-> "ready", left |-> 0]
                       ELSE [cals[t] EXCEPT !.left = @ - 1]
                  ELSE cals[t]]
    /\ UNCHANGED <<is_hl, phase, cavVars, stepVars, cryoVars, ssacal>>

\* ------------------------------------------------------------------------
\* History of power cycles (cavity 1)
\* ------------------------------------------------------------------------

NoCycle == [n |-> 0, a |-> 0, g |-> 0]

\* op is "on" (the step called power_on), "off" (it called power_off) or
\* "write" (anything else that touched the cavity); cav is the cavity before
CycleStep(cyc, cav, op) ==
    IF op = "on"
    THEN IF cyc.n = 2 THEN [cyc EXCEPT !.n = 3]
         ELSE [n |-> 1, a |-> cav.ades, g |-> cav.gdes]
    ELSE IF op = "off" /\ cyc.n = 1 THEN [cyc EXCEPT !.n = 2]
    ELSE NoCycle

Track(c, cav, op) ==
    pcycle' = IF c = 1 THEN CycleStep(pcycle, cav, op) ELSE pcycle

\* ------------------------------------------------------------------------
\* Client writes to the cavity and SSA channels
\* ------------------------------------------------------------------------

Cavity_ades(c, v) ==
    /\ cavities' = [cavities EXCEPT
                      ![c] = AdesWrite([@ EXCEPT !.nest = 0], v, MaxNest)]
    /\ Track(c, cavities[c], "write")
    /\ UNCHANGED <<is_hl, phase, calVars, ssas, stepVars, cryoVars>>

Cavity_gdes(c, g) ==
    /\ cavities' = [cavities EXCEPT
                      ![c] = GdesWrite([@ EXCEPT !.nest = 0], g, MaxNest)]
    /\ Track(c, cavities[c], "write")
    /\ UNCHANGED <<is_hl, phase, calVars, ssas, stepVars, cryoVars>>

\* a client writes PDES of cavity 1; the putter returns nothing, so the
\* channel stores the value as written
Cavity_pdes(value) ==
    /\ phase' = [pdes |-> value, pact |-> PyMod360(value),
                 pmean |-> PyMod360(value)]
    /\ UNCHANGED <<is_hl, calVars, cavVars, stepVars, cryoVars>>

Cavity_rf_state_des(c, value) ==
    /\ cavities' = [cavities EXCEPT ![c] = RfStateDesWrite(@, value)]
    /\ Track(c, cavities[c], IF value = "On" THEN "on" ELSE "off")
    /\ UNCHANGED <<is_hl, phase, calVars, ssas, stepVars, cryoVars>>

SSA_on(c, value) ==
    LET r == SSAOnPutter(ssas[c], cavities[c], value)
        called == value = "True" /\ ssas[c].status_msg # "SSA On"
                  /\ cavities[c].rf_state_des = "On"
    IN  /\ ssas' = [ssas EXCEPT ![c] = [r[1] EXCEPT !.on = value]]
        /\ cavities' = [cavities EXCEPT ![c] = r[2]]
        /\ pcycle' = IF c = 1 /\ called
                      THEN CycleStep(pcycle, cavities[c], "on") ELSE pcycle
        /\ UNCHANGED <<is_hl, phase, calVars, stepVars, cryoVars>>

SSA_off(c, value) ==
    LET r == SSAOffPutter(ssas[c], cavities[c], value)
        called == value = "True" /\ ssas[c].status_msg # "SSA Off"
    IN  /\ ssas' = [ssas EXCEPT ![c] = [r[1] EXCEPT !.off = value]]
        /\ cavities' = [cavities EXCEPT ![c] = r[2]]
        /\ pcycle' = IF c = 1 /\ called
                      THEN CycleStep(pcycle, cavities[c], "off") ELSE pcycle
        /\ UNCHANGED <<is_hl, phase, calVars, stepVars, cryoVars>>

\* ------------------------------------------------------------------------
\* StepperPVGroup and PiezoPVGroup (cavity 1)
\* ------------------------------------------------------------------------

\* the channels of a StepperPVGroup as declared
StepperInit ==
    [step_des |-> 0, speed |-> 20000, step_tot |-> 0, step_signed |-> 0,
     motor_moving |-> Index(0), motor_done |-> Index(1), abort |-> 0]

\* The channels of a PiezoPVGroup as declared.  The voltage is
\* volts + hz / PIEZO_HZ_PER_VOLT: the frequency changes added to it are kept
\* in hertz, the constant being defined outside this repository.
PiezoInit ==
    [enable_stat |-> Index(1), feedback_mode |-> Index(1),
     feedback_mode_stat |-> Index(1), voltage |-> [volts |-> 17, hz |-> 0]]

\* a move coroutine that does not exist (yet, or any more)
NoMove ==
    [pc |-> "idle", result |-> "none",
     sign |-> 0, steps |-> 0, step_change |-> 0, freq_move_sign |-> 0,
     starting_detune |-> 0,
     n0 |-> 0, v0 |-> 0, signed0 |-> 0, tot0 |-> 0, volt0 |-> 0,
     acc |-> 0, ticks |-> 0, alone |-> TRUE, steady |-> TRUE]

\* x // self.steps_per_hertz, a floor division by the double 256 / 1.4
\* (slightly above 1280/7, so that a positive multiple of 1280 gives one less
\* than the exact quotient) or by the double 256 / 18.3 (slightly below
\* 2560/183) for a high-loaded cryomodule
StepsToHertz(x) ==
    IF is_hl THEN (x * 183) \div 2560
    ELSE IF x > 0 /\ x % 1280 = 0 THEN (x * 7) \div 1280 - 1
    ELSE (x * 7) \div 1280

\* a pass of the loop that does not count its steps in REG_TOTABS
MoveIteration_NoTotal(m) ==
    LET delta == StepsToHertz(m.st.speed)
        new_detune == m.cav.detune + m.mv.freq_move_sign * delta
    IN  [m EXCEPT
           !.st.step_signed = @ + m.mv.step_change,
           !.mv.steps = @ + m.st.speed,
           !.cav.detune = new_detune,
           !.cav.detune_rfs = new_detune,
           !.mv.acc = @ + m.mv.step_change,
           !.mv.ticks = IF @ < MaxPasses THEN @ + 1 ELSE @,
           !.mv.pc = "sleep"]

\* One pass of the while loop of move, up to its sleep.  The state of a move
\* in progress is a record [st, cav, pz, mv] of stepper, cavity, piezo, task.
MoveIteration(m) ==
    LET delta == StepsToHertz(m.st.speed)
        new_detune == m.cav.detune + m.mv.freq_move_sign * delta
    IN  [m EXCEPT
           !.st.step_tot = @ + m.st.speed,
           !.st.step_signed = @ + m.mv.step_change,
           !.mv.steps = @ + m.st.speed,
           !.cav.detune = new_detune,
           !.cav.detune_rfs = new_detune,
           !.mv.acc = @ + m.mv.step_change,
           !.mv.ticks = IF @ < MaxPasses THEN @ + 1 ELSE @,
           !.mv.pc = "sleep"]

\* the move returns; `result` tells how, in the state it returns in
Returned(m, how) == [m EXCEPT !.mv.pc = "idle", !.mv.result = how]

\* the abort branch after the loop
MoveAborted(m) ==
    Returned([m EXCEPT !.st.motor_moving = "Not Moving", !.st.abort = 0],
             "aborted")

\* the remainder dropped
Remainder_None(m) == 0

\* remainder = self.step_des.value - steps
Remainder(m) == m.st.step_des - m.mv.steps

\* a test of the piezo that always passes
PiezoFeedback_Always(pz) == TRUE

\* the test of the piezo made by move: enable_stat.value == 1 and
\* feedback_mode_stat.value == "Feedback"
PiezoFeedback(pz) ==
    /\ pz.enable_stat = Index(1)
    /\ pz.feedback_mode_stat = "Feedback"

\* the end of a move that writes the new detune to DFBEST only
MoveRemainder_KeepsDF(m) ==
    LET remainder == Remainder(m)
        step_change == m.mv.sign * remainder
        delta == StepsToHertz(remainder)
        new_detune == m.cav.detune + m.mv.freq_move_sign * delta
        freq_change == new_detune - m.mv.starting_detune
        feedback == PiezoFeedback(m.pz)
    IN  Returned(
          [m EXCEPT
             !.st.step_tot = @ + remainder,
             !.st.step_signed = @ + step_change,
             !.mv.acc = @ + step_change,
             !.pz.voltage.hz = IF feedback THEN @ + freq_change ELSE @,
             !.cav.detune = new_detune,
             !.st.motor_moving = "Not Moving",
             !.st.motor_done = "Done"],
          "done")

\* the remainder, the piezo feedback and the final status writes
MoveRemainder(m) ==
    LET remainder == Remainder(m)
        step_change == m.mv.sign * remainder
        delta == StepsToHertz(remainder)
        new_detune == m.cav.detune + m.mv.freq_move_sign * delta
        freq_change == new_detune - m.mv.starting_detune
        feedback == PiezoFeedback(m.pz)
    IN  Returned(
          [m EXCEPT
             !.st.step_tot = @ + remainder,
             !.st.step_signed = @ + step_change,
             !.mv.acc = @ + step_change,
             !.pz.voltage.hz = IF feedback THEN @ + freq_change ELSE @,
             !.cav.detune = new_detune,
             !.cav.detune_rfs = new_detune,
             !.st.motor_moving = "Not Moving",
             !.st.motor_done = "Done"],
          "done")

\* from the test of the while loop to the next sleep or to the return
MoveRun(m) ==
    IF m.st.step_des - m.mv.steps >= m.st.speed /\ m.st.abort # 1
    THEN MoveIteration(m)
    ELSE IF m.st.abort = 1 THEN MoveAborted(m)
    ELSE MoveRemainder(m)

\* the head of move, before the loop
MoveStart(m, move_sign_des) ==
    LET others == \E t \in Tasks : moves[t].pc # "idle"
    IN  [m EXCEPT
           !.st.motor_moving = "Moving",
           !.mv = [NoMove EXCEPT
                     !.alone = ~others,
                     !.sign = move_sign_des,
                     !.steps = 0,
                     !.step_change = move_sign_des * m.st.speed,
                     !.freq_move_sign =
                         IF is_hl THEN move_sign_des ELSE -move_sign_des,
                     !.starting_detune = m.cav.detune,
                     !.n0 = m.st.step_des, !.v0 = m.st.speed,
                     !.signed0 = m.st.step_signed, !.tot0 = m.st.step_tot,
                     !.volt0 = m.pz.voltage.hz]]

Moving(t) == moves[t].pc # "idle"

\* the state the coroutine of task t sees, and the state it leaves
MoveView(t) ==
    [st |-> stepper, cav |-> cavities[1], pz |-> piezo, mv |-> moves[t]]

\* the tasks as the next step finds them: a move that has returned is gone
Live(t) == IF Moving(t) THEN moves[t] ELSE NoMove

\* a write to MOV_REQ_POS (+1) or MOV_REQ_NEG (-1): move runs in the
\* coroutine that serves the write, here the first free task
Stepper_move(t, move_sign_des) ==
    /\ ~Moving(t)
    /\ \A u \in Tasks : u < t => Moving(u)
    /\ nmoves < MaxMoves
    /\ nmoves' = nmoves + 1
    /\ LET m0 == MoveStart(MoveView(t), move_sign_des)
           m1 == MoveRun(m0)
       IN  /\ stepper' = m1.st
           /\ cavities' = [cavities EXCEPT ![1] = m1.cav]
           /\ piezo' = m1.pz
           /\ moves' = [u \in Tasks |->
                          IF u = t THEN m1.mv
                          ELSE [Live(u) EXCEPT !.alone = FALSE]]
    /\ UNCHANGED <<is_hl, phase, calVars, ssas, pcycle, cryoVars>>

\* a sleeping move whose second has passed goes on
Stepper_move_resume(t) ==
    /\ moves[t].pc = "ready"
    /\ LET m1 == MoveRun(MoveView(t))
       IN  /\ stepper' = m1.st
           /\ cavities' = [cavities EXCEPT ![1] = m1.cav]
           /\ piezo' = m1.pz
           /\ moves' = [u \in Tasks |-> IF u = t THEN m1.mv ELSE Live(u)]
    /\ UNCHANGED <<is_hl, phase, calVars, ssas, pcycle, nmoves, cryoVars>>

\* a write of 1 to ABORT_REQ: the channel has no putter
Stepper_abort ==
    /\ stepper' = [stepper EXCEPT !.abort = 1]
    /\ moves' = [u \in Tasks |-> Live(u)]
    /\ UNCHANGED <<is_hl, phase, calVars, cavVars, piezo, nmoves, cryoVars>>

\* writes to VELO and to NSTEPS: no putter either
Stepper_speed(v) ==
    /\ stepper' = [stepper EXCEPT !.speed = v]
    /\ moves' = [u \in Tasks |->
                   IF stepper.speed # v
                   THEN [Live(u) EXCEPT !.steady = FALSE] ELSE Live(u)]
    /\ UNCHANGED <<is_hl, phase, calVars, cavVars, piezo, nmoves, cryoVars>>

Stepper_step_des(n) ==
    /\ stepper' = [stepper EXCEPT !.step_des = n]
    /\ moves' = [u \in Tasks |->
                   IF stepper.step_des # n
                   THEN [Live(u) EXCEPT !.steady = FALSE] ELSE Live(u)]
    /\ UNCHANGED <<is_hl, phase, calVars, cavVars, piezo, nmoves, cryoVars>>

\* a write to MODECTRL: the putter copies the value to MODESTAT
Piezo_feedback_mode(value) ==
    /\ piezo' = [piezo EXCEPT !.feedback_mode_stat = value,
                              !.feedback_mode = value]
    /\ moves' = [u \in Tasks |-> Live(u)]
    /\ UNCHANGED <<is_hl, phase, calVars, cavVars, stepper, nmoves, cryoVars>>

\* a write to ENABLESTAT, a channel without putter (ENABLE has none either,
\* and nothing copies it to ENABLESTAT)
Piezo_enable_stat(value) ==
    /\ piezo' = [piezo EXCEPT !.enable_stat = value]
    /\ moves' = [u \in Tasks |-> Live(u)]
    /\ UNCHANGED <<is_hl, phase, calVars, cavVars, stepper, nmoves, cryoVars>>

\* one second passes: every sleeping move becomes ready to run.  The moves
\* that are ready run first (their stretch takes no time to speak of).
StepperTick ==
    /\ \E t \in Tasks : moves[t].pc = "sleep"
    /\ \A t \in Tasks : moves[t].pc # "ready"
    /\ moves' = [t \in Tasks |->
                   IF moves[t].pc = "sleep"
                   THEN [moves[t] EXCEPT !.pc = "ready"] ELSE Live(t)]
    /\ UNCHANGED <<is_hl, phase, calVars, cavVars, stepper, piezo, nmoves, cryoVars>>

\* ------------------------------------------------------------------------
\* CryomodulePVGroup, JTPVGroup, HeaterPVGroup, LiquidLevelPVGroup
\* ------------------------------------------------------------------------

\* (aact * 1e6) ** 2 / (1012 * q0) in hundredths, aact being taken in
\* hundredths of a MV and q0 in units of 1e9
HeatOf(a, q) == (a * a * 10) \div (1012 * q)

CavityHeat(aact, q) == HeatOf((aact * 100) \div Unit, q)

RECURSIVE SumHeat(_, _)
SumHeat(cavs, n) ==
    IF n = 0 THEN 0 ELSE SumHeat(cavs, n - 1) + CavityHeat(cavs[n].aact, q0)

\* CryomodulePVGroup.calc_rf_heat_load
calc_rf_heat_load(cavs) == SumHeat(cavs, NCav)

\* CryomodulePVGroup.total_heat: the new heater_value and the total
total_heat(cavs, cmgroup, heater_value) ==
    LET hv == IF heater_value # 0 THEN heater_value ELSE cmgroup.heater_value
    IN  <<hv, calc_rf_heat_load(cavs) + hv>>

\* a putter that does not exist (yet, or any more); `was` is history: when
\* the coroutine last ran, the valve setpoint was too high (dir = "down") or
\* too low (dir = "up") for the stable heat load, and it went to sleep
NoJob ==
    [pc |-> "idle", kind |-> "none", value |-> 0, dir |-> "none",
     was |-> FALSE]

\* the tolerance band of the valve setpoint around the stable heat load
TooHigh(setpoint, stable) == setpoint * 9 > stable * 10

TooLow(setpoint, stable) == setpoint * 11 < stable * 10

BandGuard(dir, setpoint, stable) ==
    IF dir = "down" THEN TooHigh(setpoint, stable)
    ELSE IF dir = "up" THEN TooLow(setpoint, stable)
    ELSE FALSE

\* the same test with the factors of the loops of sc_rf_service.py, which
\* is true wherever BandGuard is
WideGuard(dir, setpoint, stable) ==
    IF dir = "down" THEN setpoint * 11 > stable * 10
    ELSE IF dir = "up" THEN setpoint * 9 < stable * 10
    ELSE FALSE

\* The state a putter of the cryomodule sees and leaves: liquid level, JT
\* valve, heater, cryomodule and its own task.
\* The test of the while loop of JTPVGroup.man_pos ...
ManPosGuard(j) ==
    IF j.job.dir = "down" THEN j.jt.man_pos * 11 > j.job.value * 10
    ELSE IF j.job.dir = "up" THEN j.jt.man_pos * 9 < j.job.value * 10
    ELSE FALSE

\* ... and of the while loop of HeaterPVGroup.setpoint
SetpointGuard(j) ==
    IF j.job.dir = "down" THEN j.jt.man_pos * 11 > j.jt.stable_value * 10
    ELSE IF j.job.dir = "up" THEN j.jt.man_pos * 9 < j.jt.stable_value * 10
    ELSE FALSE

\* The level as the model records it: these loops never read the level and
\* nothing bounds it, so beyond LevelFloor and LevelCeil the model stops
\* counting and records every level further out as the bound itself.
Recorded(level) ==
    IF level < LevelFloor THEN LevelFloor
    ELSE IF level > LevelCeil THEN LevelCeil
    ELSE level

\* one pass of either loop: the level moves by 0.01, then sleep(1)
LevelStep(j) ==
    [j EXCEPT !.ll.downstream =
                  Recorded(IF j.job.dir = "down" THEN @ - 1 ELSE @ + 1),
              !.job.pc = "sleep"]

\* the putter returns and the written value is stored
PutterReturn(j) ==
    IF j.job.kind = "man_pos"
    THEN [j EXCEPT !.jt.man_pos = j.job.value, !.job = NoJob]
    ELSE [j EXCEPT !.heater.setpoint = j.job.value, !.job = NoJob]

\* from the test of the while loop to the next sleep or to the return
LoopRun(j) ==
    IF (j.job.kind = "man_pos" /\ ManPosGuard(j))
       \/ (j.job.kind = "setpoint" /\ SetpointGuard(j))
    THEN LevelStep(j)
    ELSE PutterReturn(j)

\* the head of JTPVGroup.man_pos
ManPosStart(j, cavs, value) ==
    LET stable == total_heat(cavs, j.cm, 0)[2]
    IN  [j EXCEPT
           !.jt.readback = value,
           !.jt.stable_value = stable,
           !.job = [pc |-> "run", kind |-> "man_pos", value |-> value,
                    was |-> FALSE,
                    dir |-> IF value * 11 > stable * 10 THEN "down"
                            ELSE IF value * 9 < stable * 10 THEN "up"
                            ELSE "none"]]

\* the head of HeaterPVGroup.setpoint
SetpointStart(j, cavs, value) ==
    LET th == total_heat(cavs, [j.cm EXCEPT !.heater_value = value], value)
    IN  [j EXCEPT
           !.cm.heater_value = th[1],
           !.jt.stable_value = th[2],
           !.job = [pc |-> "run", kind |-> "setpoint", value |-> value,
                    was |-> FALSE,
                    dir |-> IF j.jt.man_pos * 11 > th[2] * 10 THEN "down"
                            ELSE IF j.jt.man_pos * 9 < th[2] * 10 THEN "up"
                            ELSE "none"]]

Running(t) == jobs[t].pc # "idle"

\* no putter of the JT valve or the heater is in flight
Quiescent == \A t \in Tasks : ~Running(t)

JobView(t) ==
    [ll |-> ll, jt |-> jt, heater |-> heater, cm |-> cryomodule,
     job |-> jobs[t]]

\* The valve setpoints and the stable heat loads a client can take as the
\* live ones: MANPOS_RQST and its readback ORBV, the stable_value kept by the
\* JTPVGroup and the heat load of the cavities and the heater as they are.
Readings(j, cavs) ==
    {<<sp, st>> : sp \in {j.jt.man_pos, j.jt.readback},
                  st \in {j.jt.stable_value, total_heat(cavs, j.cm, 0)[2]}}

\* the test of the loop's direction holds on every reading with either pair
\* of factors, or fails on every reading with either pair
GuardHolds(j, cavs) ==
    \A r \in Readings(j, cavs) : BandGuard(j.job.dir, r[1], r[2])

GuardFails(j, cavs) ==
    \A r \in Readings(j, cavs) : ~WideGuard(j.job.dir, r[1], r[2])

JobCommit(t, j) ==
    /\ ll' = j.ll
    /\ jt' = j.jt
    /\ heater' = j.heater
    /\ cryomodule' = j.cm
    /\ jobs' = [jobs EXCEPT
                  ![t] = [j.job EXCEPT
                            !.was = j.job.pc = "sleep"
                                    /\ GuardHolds(j, cavities)]]

FirstFree(t) == ~Running(t) /\ \A u \in Tasks : u < t => Running(u)

\* a client writes the JT valve's MANPOS_RQST
JT_man_pos(t, value) ==
    /\ FirstFree(t)
    /\ JobCommit(t, LoopRun(ManPosStart(JobView(t), cavities, value)))
    /\ UNCHANGED <<is_hl, phase, calVars, cavVars, stepVars, q0, nticks, cmVars>>

\* a client writes the heater's MANPOS_RQST
Heater_setpoint(t, value) ==
    /\ FirstFree(t)
    /\ JobCommit(t, LoopRun(SetpointStart(JobView(t), cavities, value)))
    /\ UNCHANGED <<is_hl, phase, calVars, cavVars, stepVars, q0, nticks, cmVars>>

\* a sleeping putter whose second has passed goes on
Job_resume(t) ==
    /\ jobs[t].pc = "ready"
    /\ JobCommit(t, LoopRun(JobView(t)))
    /\ UNCHANGED <<is_hl, phase, calVars, cavVars, stepVars, q0, nticks, cmVars>>

\* the sleeping putters wake up
JobWake ==
    /\ \E t \in Tasks : jobs[t].pc = "sleep"
    /\ \A t \in Tasks : jobs[t].pc # "ready"
    /\ jobs' = [t \in Tasks |->
                  IF jobs[t].pc = "sleep"
                  THEN [jobs[t] EXCEPT !.pc = "ready"] ELSE jobs[t]]

\* one second passes
JobTick ==
    /\ nticks < MaxTicks
    /\ JobWake
    /\ nticks' = nticks + 1
    /\ UNCHANGED <<is_hl, phase, calVars, cavVars, stepVars, q0, ll, jt, heater, cryomodule, cmVars>>

\* one second passes, with no count of the seconds kept
JobSecond ==
    /\ JobWake
    /\ UNCHANGED <<is_hl, phase, nticks, calVars, cavVars, stepVars, q0, ll, jt, heater, cryomodule, cmVars>>

\* the cryogenic channels as declared and constructed
LiquidLevelInit == [upstream |-> 7500, downstream |-> 9300]

JTInit(stable) == [readback |-> 3000, man_pos |-> 4000, stable_value |-> stable]

HeaterInit == [setpoint |-> 2400, readback |-> 2400, mode_string |-> "SEQUENCER"]

CryomoduleInit == [heater_value |-> 2400]

\* ------------------------------------------------------------------------
\* SimulacrumCM and SimulacrumCavity (sc_rf_refactored_service.py)
\* ------------------------------------------------------------------------

RECURSIVE SumHeatLoad(_, _, _)
SumHeatLoad(aacts, amp_change, n) ==
    IF n = 0 THEN 0
    ELSE SumHeatLoad(aacts, amp_change, n - 1)
         + HeatOf(IF amp_change # <<>> /\ n = amp_change[1]
                  THEN amp_change[2] ELSE aacts[n], q0)

\* SimulacrumCM.total_heat_load; a heater_value of 0 stands for None as well,
\* both fail the test "not heater_value"
total_heat_load(r, heater_value, amp_change) ==
    SumHeatLoad(r.aact, amp_change, NCav)
    + (IF heater_value = 0 THEN r.cm.heater_setpoint ELSE heater_value)

NoCMJob == [pc |-> "idle", kind |-> "none", cav |-> 0, value |-> 0, dir |-> "none"]

\* the tests of the while loops taken without regard to the branch the
\* loop is in
AdjustGuard_AnyBranch(r) ==
    /\ \/ r.cm.jt_valve_readback * 9 > r.cm.jt_stable_pos * 10
       \/ r.cm.jt_valve_readback * 11 < r.cm.jt_stable_pos * 10
    /\ r.job.dir # "none"
    /\ 7000 < r.cm.ds_level
    /\ r.cm.ds_level < 10000

\* the tests of the while loops without their test of the level
AdjustGuard_AnyLevel(r) ==
    IF r.job.dir = "down"
    THEN r.cm.jt_valve_readback * 9 > r.cm.jt_stable_pos * 10
    ELSE IF r.job.dir = "up"
    THEN r.cm.jt_valve_readback * 11 < r.cm.jt_stable_pos * 10
    ELSE FALSE

\* The test of the while loops of adjust_liquid_level.  The level is a
\* binary float built up by adding and subtracting 0.01 from 93.0: after
\* the 700 additions that bring it to 100 it is 100.00000000000358, after
\* the 2300 subtractions that bring it to 70 it is 69.99999999998823, so
\* 70 <= level <= 100 fails at both ends of the band.
AdjustGuard(r) ==
    /\ IF r.job.dir = "down"
       THEN r.cm.jt_valve_readback * 9 > r.cm.jt_stable_pos * 10
       ELSE IF r.job.dir = "up"
       THEN r.cm.jt_valve_readback * 11 < r.cm.jt_stable_pos * 10
       ELSE FALSE
    /\ 7000 < r.cm.ds_level
    /\ r.cm.ds_level < 10000

\* adjust_liquid_level returns, and with it the putter: verify_value hands
\* the value back and the channel stores it
CMPutterReturn(r) ==
    IF r.job.kind = "aact"
    THEN [r EXCEPT !.aact[r.job.cav] = r.job.value, !.job = NoCMJob]
    ELSE IF r.job.kind = "jt"
    THEN [r EXCEPT !.cm.jt_manpos_rqst = r.job.value, !.job = NoCMJob]
    ELSE [r EXCEPT !.cm.heater_setpoint = r.job.value, !.job = NoCMJob]

\* from the test of the while loop to the next sleep or to the return
AdjustRun(r) ==
    IF AdjustGuard(r)
    THEN [r EXCEPT !.cm.ds_level = IF r.job.dir = "down" THEN @ - 1 ELSE @ + 1,
                   !.job.pc = "sleep"]
    ELSE CMPutterReturn(r)

\* the head of adjust_liquid_level: the branch is chosen once
adjust_liquid_level(r) ==
    LET jt_setpoint == r.cm.jt_valve_readback
    IN  AdjustRun([r EXCEPT !.job.pc = "run",
                     !.job.dir =
                        IF jt_setpoint * 9 > r.cm.jt_stable_pos * 10 THEN "down"
                        ELSE IF jt_setpoint * 11 < r.cm.jt_stable_pos * 10 THEN "up"
                        ELSE "none"])

aact_amp_change(r, c, value) ==
    adjust_liquid_level(
        [r EXCEPT !.cm.jt_stable_pos = total_heat_load(r, 0, <<c, value>>),
                  !.job = [NoCMJob EXCEPT !.kind = "aact", !.cav = c,
                                          !.value = value]])

jt_valve_update(r, value) ==
    adjust_liquid_level(
        [r EXCEPT !.cm.jt_valve_readback = value,
                  !.job = [NoCMJob EXCEPT !.kind = "jt", !.value = value]])

heater_setpoint_update(r, value) ==
    LET r1 == [r EXCEPT !.cm.jt_stable_pos = total_heat_load(r, value, <<>>),
                        !.job = [NoCMJob EXCEPT !.kind = "heater",
                                                !.value = value]]
    IN  IF r.cm.heater_mode = "MANUAL"
        THEN adjust_liquid_level([r1 EXCEPT !.cm.heater_readback = value])
        ELSE CMPutterReturn(r1)

CMRunning(t) == cmjobs[t].pc # "idle"

CMView(t) == [cm |-> cm, aact |-> cm_aact, job |-> cmjobs[t]]

CMCommit(t, r) ==
    /\ cm' = r.cm
    /\ cm_aact' = r.aact
    /\ cmjobs' = [cmjobs EXCEPT ![t] = r.job]

CMFirstFree(t) == ~CMRunning(t) /\ \A u \in Tasks : u < t => CMRunning(u)

\* one more client write is served
CMWrite ==
    /\ cmwrites < MaxWrites
    /\ cmwrites' = cmwrites + 1

\* a client writes a cavity's AACT
CM_aact(t, c, value) ==
    /\ CMFirstFree(t)
    /\ CMWrite
    /\ CMCommit(t, aact_amp_change(CMView(t), c, value))
    /\ UNCHANGED <<is_hl, phase, calVars, cavVars, stepVars, jtVars>>

\* a client writes the JT valve's MANPOS_RQST
CM_jt_valve(t, value) ==
    /\ CMFirstFree(t)
    /\ CMWrite
    /\ CMCommit(t, jt_valve_update(CMView(t), value))
    /\ UNCHANGED <<is_hl, phase, calVars, cavVars, stepVars, jtVars>>

\* a client writes the heater's MANPOS_RQST
CM_heater_setpoint(t, value) ==
    /\ CMFirstFree(t)
    /\ CMWrite
    /\ CMCommit(t, heater_setpoint_update(CMView(t), value))
    /\ UNCHANGED <<is_hl, phase, calVars, cavVars, stepVars, jtVars>>

\* a client writes the heater's MODE_STRING, a channel without putter
CM_heater_mode(value) ==
    /\ CMWrite
    /\ cm' = [cm EXCEPT !.heater_mode = value]
    /\ UNCHANGED <<is_hl, phase, calVars, cavVars, stepVars, jtVars, cm_aact, cmjobs>>

\* a sleeping putter whose second has passed goes on
CM_resume(t) ==
    /\ cmjobs[t].pc = "ready"
    /\ CMCommit(t, AdjustRun(CMView(t)))
    /\ UNCHANGED <<is_hl, phase, calVars, cavVars, stepVars, jtVars, cmwrites>>

\* one second passes
CMTick ==
    /\ nticks < MaxTicks
    /\ \E t \in Tasks : cmjobs[t].pc = "sleep"
    /\ \A t \in Tasks : cmjobs[t].pc # "ready"
    /\ cmjobs' = [t \in Tasks |->
                    IF cmjobs[t].pc = "sleep"
                    THEN [cmjobs[t] EXCEPT !.pc = "ready"] ELSE cmjobs[t]]
    /\ nticks' = nticks + 1
    /\ UNCHANGED <<is_hl, phase, calVars, cavVars, stepVars, q0, ll, jt, heater, cryomodule,
                   jobs, cm, cm_aact, cmwrites>>

\* SimulacrumCM.__init__ and SimulacrumCavity.__init__
CMInit(aacts, lvl) ==
    LET c0 == [ds_level |-> lvl, us_level |-> 7500,
               jt_valve_readback |-> 4000, jt_manpos_rqst |-> 4000,
               heater_setpoint |-> 2400, heater_readback |-> 2400,
               heater_mode |-> "MANUAL", jt_stable_pos |-> 0]
    IN  [c0 EXCEPT !.jt_stable_pos =
            total_heat_load([cm |-> c0, aact |-> aacts], 0, <<>>)]

\* ------------------------------------------------------------------------
\* Specification of one cavity with its SSA
\* ------------------------------------------------------------------------

Init ==
    /\ is_hl \in BOOLEAN
    /\ \E lf \in LandingFreqs : cavities = [c \in Cavs |-> CavityInit(lf)]
    /\ ssas = [c \in Cavs |-> SSAInit]
    /\ pcycle = NoCycle
    /\ stepper = StepperInit
    /\ piezo = PiezoInit
    /\ moves = [t \in Tasks |-> NoMove]
    /\ nmoves = 0
    /\ q0 \in Q0s
    /\ cryomodule = CryomoduleInit
    /\ heater = HeaterInit
    /\ cm_aact = [c \in Cavs |-> 1660]
    /\ \E lvl \in StartLevels :
          /\ ll = [LiquidLevelInit EXCEPT !.downstream = lvl]
          /\ jt = [JTInit(total_heat(cavities, cryomodule, 0)[2])
                     EXCEPT !.readback = IF lvl = 9300 THEN @ ELSE 4000]
          /\ cm = CMInit(cm_aact, lvl)
    /\ cmjobs = [t \in Tasks |-> NoCMJob]
    /\ cmwrites = 0
    /\ jobs = [t \in Tasks |-> NoJob]
    /\ nticks = 0
    /\ ssacal = SSACalInit
    /\ cals = [t \in Tasks |-> NoCal]
    /\ phase = PhaseInit

NextCav ==
    \/ \E v \in AmpInputs : Cavity_ades(1, v)
    \/ \E g \in GradInputs : Cavity_gdes(1, g)
    \/ \E s \in {"On", "Off"} : Cavity_rf_state_des(1, s)
    \/ \E b \in {"True", "False"} : SSA_on(1, b)
    \/ \E b \in {"True", "False"} : SSA_off(1, b)

SpecCav == Init /\ [][NextCav]_vars

\* the cavity with its phase
NextPhase ==
    \/ NextCav
    \/ \E v \in PhaseInputs : Cavity_pdes(v)

SpecPhase == Init /\ [][NextPhase]_vars

\* ------------------------------------------------------------------------
\* Specification of the stepper of cavity 1 with its piezo
\* ------------------------------------------------------------------------

NextStep ==
    \/ \E t \in Tasks, d \in {1, -1} : Stepper_move(t, d)
    \/ \E t \in Tasks : Stepper_move_resume(t)
    \/ Stepper_abort
    \/ \E v \in Speeds : Stepper_speed(v)
    \/ \E n \in StepRequests : Stepper_step_des(n)
    \/ StepperTick

SpecStep == Init /\ [][NextStep]_vars

\* no move of the stepper is in flight
MotorIdle == \A t \in Tasks : moves[t].pc = "idle"

\* the stepper and the settings of its piezo; VELO, NSTEPS and ENABLESTAT
\* are written between moves
NextPiezo ==
    \/ \E t \in Tasks, d \in {1, -1} : Stepper_move(t, d)
    \/ \E t \in Tasks : Stepper_move_resume(t)
    \/ Stepper_abort
    \/ \E v \in Speeds : MotorIdle /\ Stepper_speed(v)
    \/ \E n \in StepRequests : MotorIdle /\ Stepper_step_des(n)
    \/ StepperTick
    \/ \E value \in ModeInputs : Piezo_feedback_mode(value)
    \/ \E value \in EnableInputs : MotorIdle /\ Piezo_enable_stat(value)

SpecPiezo == Init /\ [][NextPiezo]_vars

\* Moves followed for as long as they run: a speed of 0 is among the values
\* written to VELO, VELO and NSTEPS are written between moves only, and the
\* event loop ends every sleep and runs every coroutine that is ready.
NextStepLive ==
    \/ \E t \in Tasks, d \in {1, -1} : Stepper_move(t, d)
    \/ \E t \in Tasks : Stepper_move_resume(t)
    \/ Stepper_abort
    \/ \E v \in SpeedsLive : MotorIdle /\ Stepper_speed(v)
    \/ \E n \in StepRequests : MotorIdle /\ Stepper_step_des(n)
    \/ StepperTick

SpecStepLive ==
    /\ Init
    /\ [][NextStepLive]_vars
    /\ WF_vars(StepperTick)
    /\ \A t \in Tasks : WF_vars(Stepper_move_resume(t))

\* ------------------------------------------------------------------------
\* Specification of the cryomodule: JT valve, heater, liquid level, and
\* the amplitudes of its cavities
\* ------------------------------------------------------------------------

NextJT ==
    \/ \E t \in Tasks, v \in ValveInputs : JT_man_pos(t, v)
    \/ \E t \in Tasks, v \in HeaterInputs : Heater_setpoint(t, v)
    \/ \E t \in Tasks : Job_resume(t)
    \/ JobTick
    \/ \E v \in HeatAmpInputs : Cavity_ades(1, v)

\* the cavity's length plays no part in the heat load
InitJT == Init /\ ~is_hl

SpecJT == InitJT /\ [][NextJT]_vars

NextCM ==
    \/ \E t \in Tasks, c \in Cavs, v \in AactInputs : CM_aact(t, c, v)
    \/ \E t \in Tasks, v \in ValveInputs : CM_jt_valve(t, v)
    \/ \E t \in Tasks, v \in HeaterInputs : CM_heater_setpoint(t, v)
    \/ \E v \in HeaterModes : CM_heater_mode(v)
    \/ \E t \in Tasks : CM_resume(t)
    \/ CMTick

SpecCM == InitJT /\ [][NextCM]_vars

\* One activation of a loop at a time, followed for as long as it runs: a
\* write is served only when no putter is in flight, so that no further
\* write arrives while a loop is running.
NextJTAlone ==
    \/ \E t \in Tasks, v \in ValveInputsAlone : Quiescent /\ JT_man_pos(t, v)
    \/ \E t \in Tasks, v \in HeaterInputs : Quiescent /\ Heater_setpoint(t, v)
    \/ \E t \in Tasks : Job_resume(t)
    \/ JobSecond

\* The event loop ends every sleep and runs every coroutine that is ready.
SpecJTLive ==
    /\ InitJT
    /\ [][NextJTAlone]_vars
    /\ WF_vars(JobSecond)
    /\ \A t \in Tasks : WF_vars(Job_resume(t))

\* ------------------------------------------------------------------------
\* Specification of the SSA's calibration
\* ------------------------------------------------------------------------

NextCal ==
    \/ \E t \in Tasks : SSA_cal_start(t)
    \/ \E t \in Tasks : SSA_cal_resume(t)
    \/ CalTick

\* the cavity's length and the liquid level play no part in a calibration
InitCal == InitJT /\ ll.downstream = 9300

SpecCal == InitCal /\ [][NextCal]_vars

\* The event loop ends every sleep and runs every coroutine that is ready.
SpecCalLive ==
    /\ SpecCal
    /\ WF_vars(CalTick)
    /\ \A t \in Tasks : WF_vars(SSA_cal_resume(t))

\* ------------------------------------------------------------------------
\* Properties of the cavity
\* ------------------------------------------------------------------------

\* C1: whenever the cavity's RF is off (rf_state_act = "Off"), its actual
\* amplitude and actual gradient are 0: a desired-value write made while the
\* RF is off does not change the actual values.
C1_RfOffImpliesZero ==
    Shown(OffOn, cavities[1].rf_state_act) = "Off"
        => cavities[1].aact = 0 /\ cavities[1].gact = 0

\* C10: after power_on(); power_off(); power_on() with no write in between,
\* the actual amplitude and its mean equal the desired amplitude held at the
\* start, the actual gradient equals the desired gradient held at the start,
\* the RF is on, and both desired values are what they were.
C10_PowerCycleRestores ==
    pcycle.n = 3 =>
        /\ cavities[1].aact = pcycle.a
        /\ cavities[1].amean = pcycle.a
        /\ cavities[1].gact = pcycle.g
        /\ Shown(OffOn, cavities[1].rf_state_act) = "On"
        /\ cavities[1].ades = pcycle.a
        /\ cavities[1].gdes = pcycle.g

\* a power cycle completed on desired values written by a client
C10_Witness ==
    /\ pcycle.n = 3
    /\ pcycle.a = 10 * Unit
    /\ cavities[1].aact = 10 * Unit

\* ------------------------------------------------------------------------
\* Properties of the stepper
\* ------------------------------------------------------------------------

Abs(x) == IF x < 0 THEN -x ELSE x

MovesInFlight == {t \in Tasks : Moving(t)}

\* C6: at most one move per stepper is in flight: a move requested while
\* another one is in progress is rejected and starts nothing.
C6_AtMostOneMoveInFlight == Cardinality(MovesInFlight) <= 1

\* C7: a move that returns because of an abort leaves the signed step total
\* at its value at the start of the move plus direction * speed * (ticks the
\* move completed), with the abort request cleared and the motor not moving.
C7_AbortedMoveTotal ==
    \A t \in Tasks :
        moves[t].result = "aborted" =>
            /\ stepper.step_signed
                 = moves[t].signed0 + moves[t].sign * moves[t].v0 * moves[t].ticks
            /\ stepper.abort = 0
            /\ Shown(MovingStrings, stepper.motor_moving) = "Not Moving"

\* the same for a move that no other move overlapped
AbortedAloneTotal ==
    \A t \in Tasks :
        moves[t].result = "aborted" /\ moves[t].alone =>
            /\ stepper.step_signed
                 = moves[t].signed0 + moves[t].sign * moves[t].v0 * moves[t].ticks
            /\ stepper.abort = 0
            /\ Shown(MovingStrings, stepper.motor_moving) = "Not Moving"

\* a move ran to its end with no other move in flight and with NSTEPS and
\* VELO as they were when it started
Uninterrupted(t) ==
    /\ moves[t].result = "done"
    /\ moves[t].alone
    /\ moves[t].steady

\* C8: an uninterrupted move of N requested steps in direction d leaves the
\* signed step total at its value before the move plus exactly d * N.
C8_UninterruptedMoveSigned ==
    \A t \in Tasks :
        Uninterrupted(t) =>
            stepper.step_signed = moves[t].signed0 + moves[t].sign * moves[t].n0

\* an uninterrupted move of 250 steps at 100 steps a tick: two ticks and a
\* remainder of 50
C8_Witness ==
    \E t \in Tasks :
        /\ Uninterrupted(t)
        /\ moves[t].n0 = 250 /\ moves[t].v0 = 100 /\ moves[t].ticks = 2
        /\ moves[t].sign = -1

\* C9: over an uninterrupted move of N steps the detune changes by
\* direction_sign * N / steps_per_hertz, with an error smaller than the
\* detune change of one tick, speed / steps_per_hertz.  (steps_per_hertz is
\* 2560/183 for a high-loaded cryomodule and 1280/7 otherwise; both sides are
\* multiplied by its numerator.)
C9_DetuneWithinOneTick ==
    \A t \in Tasks :
        Uninterrupted(t) =>
            LET change == cavities[1].detune - moves[t].starting_detune
                n == moves[t].freq_move_sign * moves[t].n0
            IN  IF is_hl
                THEN Abs(2560 * change - 183 * n) < 183 * moves[t].v0
                ELSE Abs(1280 * change - 7 * n) < 7 * moves[t].v0


\* ------------------------------------------------------------------------
\* Properties of the cryomodule
\* ------------------------------------------------------------------------

\* the putters of the SimulacrumCM that are inside adjust_liquid_level
LoopsActive == {t \in Tasks : CMRunning(t)}

\* each of them wrote the level once since the last second passed
LevelWritesThisSecond == Cardinality({t \in Tasks : cmjobs[t].pc = "sleep"})

\* C2: for each tank at most one JT convergence loop is active at any time,
\* so the downstream level changes by at most one step per tick.
C2_AtMostOneLoop ==
    /\ Cardinality(LoopsActive) <= 1
    /\ LevelWritesThisSecond <= 1

\* C3: whenever no operation of the cryomodule is in progress, the stored
\* stable heat load is the sum of the cavities' RF heat, computed from
\* their actual amplitudes, plus the heater value.
C3_StableHeatLoad ==
    Quiescent =>
        jt.stable_value = calc_rf_heat_load(cavities) + cryomodule.heater_value

\* a step of the level is justified for a setpoint when the setpoint is
\* outside the tolerance band on the side the step corrects and the level
\* it leaves is inside the safety band [70, 100]
StepJustified(setpoint, stable, from, to) ==
    /\ 7000 <= from
    /\ from <= 10000
    /\ IF to < from THEN setpoint * 9 > stable * 10
                    ELSE setpoint * 11 < stable * 10

\* C4: the JT loop changes the downstream level only while the setpoint
\* (the one requested, or the one stored) over the stable heat load is
\* outside [0.9, 1.1] and the level has not reached a safety bound.
C4_LevelStepJustified ==
    [][ll'.downstream # ll.downstream =>
          \/ StepJustified(jt'.readback, jt'.stable_value,
                           ll.downstream, ll'.downstream)
          \/ StepJustified(jt'.man_pos, jt'.stable_value,
                           ll.downstream, ll'.downstream)]_vars

\* the same of the SimulacrumCM, whose loop reads the valve's readback: holds
CMLevelStepJustified ==
    [][cm'.ds_level # cm.ds_level =>
          StepJustified(cm'.jt_valve_readback, cm'.jt_stable_pos,
                        cm.ds_level, cm'.ds_level)]_vars

\* C5: the upstream and the downstream level both lie within [0, 100].
C5_LevelsWithinBounds ==
    /\ 0 <= ll.upstream /\ ll.upstream <= 10000
    /\ 0 <= ll.downstream /\ ll.downstream <= 10000

\* the same of the SimulacrumCM, whose loop is guarded: holds
CMLevelsWithinBounds ==
    /\ 0 <= cm.us_level /\ cm.us_level <= 10000
    /\ 0 <= cm.ds_level /\ cm.ds_level <= 10000

\* ------------------------------------------------------------------------
\* Properties of the cavity: amplitude and gradient
\* ------------------------------------------------------------------------

\* the step is a client's write of ADES, of GDES, or a power_on of cavity 1
SetAmplitudeDesired == \E v \in AmpInputs : Cavity_ades(1, v)

SetGradientDesired == \E g \in GradInputs : Cavity_gdes(1, g)

PowerOn == Cavity_rf_state_des(1, "On")

\* C11: after a write of the desired amplitude, a write of the desired
\* gradient or a power_on that ends with the RF on, the actual amplitude is
\* the actual gradient times the cavity's length.
C11_AmplitudeIsGradientTimesLength ==
    [][(SetAmplitudeDesired \/ SetGradientDesired \/ PowerOn)
         /\ Shown(OffOn, cavities'[1].rf_state_act) = "On"
       => cavities'[1].aact = MulLength(cavities'[1].gact)]_vars

\* ------------------------------------------------------------------------
\* Properties of the heat load
\* ------------------------------------------------------------------------

\* C12: the heat load recomputed with a heater override is the sum of the
\* cavities' RF heat plus the override, for every override, 0 included
\* (heater_setpoint_update(v) stores total_heat_load(heater_value=v)).
C12_RecomputeUsesOverride ==
    [][\A t \in Tasks, v \in HeaterInputs :
          CM_heater_setpoint(t, v)
              => cm'.jt_stable_pos = SumHeatLoad(cm_aact, <<>>, NCav) + v]_vars

\* ------------------------------------------------------------------------
\* Properties of the SSA
\* ------------------------------------------------------------------------

\* C13: while the SSA is off, the actual amplitude, its mean and the actual
\* gradient of its cavity are 0: no write of a desired value and no RF
\* request restores them before the SSA is turned on again.
C13_SSAOffImpliesZero ==
    Shown(StatusMsgs, ssas[1].status_msg) = "SSA Off"
        => /\ cavities[1].aact = 0
           /\ cavities[1].amean = 0
           /\ cavities[1].gact = 0

\* C14: every calibration returns, and the step on which it returns leaves
\* the calibration status at Complete or Crash, not at Running, whether or
\* not another calibration is still waiting.
C14_CalibrationEnds ==
    /\ \A t \in Tasks : Calibrating(t) ~> ~Calibrating(t)
    /\ [][\A t \in Tasks :
            SSA_cal_resume(t) => Shown(CalStatuses, ssacal'.cal_status)
                                    \in {"Complete", "Crash"}]_vars

\* a calibration has returned while a later one is still waiting
C14_Witness ==
    /\ ssacal.slope_new # 0
    /\ Shown(CalStatuses, ssacal.cal_status) = "Complete"
    /\ \E t \in Tasks : cals[t].pc = "sleep"

\* ------------------------------------------------------------------------
\* Properties of the heater
\* ------------------------------------------------------------------------

\* C15: a write of the heater setpoint while the heater mode is not MANUAL
\* changes neither the heater value, nor the stable heat load, nor the
\* heater readback, nor the levels, and starts no loop.
C15_SetpointIgnoredOutsideManual ==
    [][\A t \in Tasks, v \in HeaterInputs :
          heater.mode_string # "MANUAL" /\ Heater_setpoint(t, v)
              => /\ cryomodule'.heater_value = cryomodule.heater_value
                 /\ heater'.setpoint = heater.setpoint
                 /\ heater'.readback = heater.readback
                 /\ jt'.stable_value = jt.stable_value
                 /\ ll' = ll
                 /\ jobs' = jobs]_vars

\* ------------------------------------------------------------------------
\* Properties of the stepper: abort while idle
\* ------------------------------------------------------------------------

\* C16: an abort request made while no move is in flight leaves the abort
\* flag clear and every other channel of the stepper as it was.
C16_AbortWhileIdleIsNoOp ==
    [][(\A t \in Tasks : ~Moving(t)) /\ Stepper_abort
         => stepper' = stepper /\ stepper'.abort = 0]_vars

\* ------------------------------------------------------------------------
\* Properties of the cavity: writes of the desired values
\* ------------------------------------------------------------------------

\* C17: with the RF on, a write of the desired amplitude v ends with the
\* actual amplitude and its mean at v and the actual gradient at v / length.
C17_AdesSetsActuals ==
    [][\A v \in AmpInputs :
          Shown(OffOn, cavities[1].rf_state_act) = "On" /\ Cavity_ades(1, v)
              => /\ cavities'[1].aact = v
                 /\ cavities'[1].amean = v
                 /\ cavities'[1].gact = DivLength(v)]_vars

\* the same for the amplitudes that divide exactly by the length: holds
AdesSetsActualsExact ==
    [][\A v \in AmpInputs :
          /\ Shown(OffOn, cavities[1].rf_state_act) = "On"
          /\ MulLength(DivLength(v)) = v
          /\ Cavity_ades(1, v)
          => /\ cavities'[1].aact = v
             /\ cavities'[1].amean = v
             /\ cavities'[1].gact = DivLength(v)]_vars

\* no chain of putters was cut short by the bound on its depth
ChainsComplete == \A c \in Cavs : cavities[c].nest <= MaxNest

\* C18: with the RF on, a write of the desired gradient g ends with the
\* actual gradient at g and the actual amplitude and its mean at g * length.
C18_GdesSetsActuals ==
    [][\A g \in GradInputs :
          Shown(OffOn, cavities[1].rf_state_act) = "On" /\ Cavity_gdes(1, g)
              => /\ cavities'[1].gact = g
                 /\ cavities'[1].aact = MulLength(g)
                 /\ cavities'[1].amean = MulLength(g)]_vars

\* the same for the gradients that multiply exactly by the length: holds
GdesSetsActualsExact ==
    [][\A g \in GradInputs :
          /\ Shown(OffOn, cavities[1].rf_state_act) = "On"
          /\ DivLength(MulLength(g)) = g
          /\ Cavity_gdes(1, g)
          => /\ cavities'[1].gact = g
             /\ cavities'[1].aact = MulLength(g)
             /\ cavities'[1].amean = MulLength(g)]_vars

\* ------------------------------------------------------------------------
\* Properties of the SSA: invalid transitions
\* ------------------------------------------------------------------------

\* a request to turn on an SSA that is on, or off an SSA that is off, as
\* the putters tell it: by the status string an earlier request has written
InvalidTransition ==
    \/ ssas[1].status_msg = "SSA On" /\ SSA_on(1, "True")
    \/ ssas[1].status_msg = "SSA Off" /\ SSA_off(1, "True")

\* C19: an invalid SSA transition request changes neither the SSA state
\* nor the cavity's channels, and raises the alarm summary (or the fault
\* summary) of the SSA.
C19_InvalidTransitionSurfaced ==
    [][InvalidTransition
         => /\ ssas'[1].status_msg = ssas[1].status_msg
            /\ cavities' = cavities
            /\ \/ Shown(Severities, ssas'[1].alarm_sum) # "NO_ALARM"
               \/ Shown(Severities, ssas'[1].fault_sum) # "NO_ALARM"]_vars

\* the first half alone, the request being a no-op: holds
InvalidTransitionIsNoOp ==
    [][InvalidTransition
         => /\ ssas'[1].status_msg = ssas[1].status_msg
            /\ cavities' = cavities]_vars

\* ------------------------------------------------------------------------
\* Properties of the JT loop: termination
\* ------------------------------------------------------------------------

\* C20: every activation of the JT loop returns after finitely many
\* seconds when no further write arrives while it runs.
C20_ActivationTerminates ==
    \A t \in Tasks : Running(t) ~> ~Running(t)

\* ------------------------------------------------------------------------
\* Properties of the stepper: termination
\* ------------------------------------------------------------------------

\* C21: every move of the stepper eventually returns, with the motor
\* reported as not moving, whatever the requested steps and the speed are
\* and whether or not an abort is requested while it runs.
C21_MoveReturns ==
    \A t \in Tasks :
        Moving(t) ~> /\ ~Moving(t)
                     /\ Shown(MovingStrings, stepper.motor_moving) = "Not Moving"

\* ------------------------------------------------------------------------
\* Properties of the SSA: turning on and off
\* ------------------------------------------------------------------------

\* the log reports a and later b
InOrder(log, a, b) ==
    \E i, j \in DOMAIN log : i < j /\ log[i] = a /\ log[j] = b

\* a request to turn on the SSA of cavity 1 made while it reads SSA Off
RequestOn ==
    /\ Shown(StatusMsgs, ssas[1].status_msg) = "SSA Off"
    /\ SSA_on(1, "True")

\* C22: a request to turn on an SSA that is off reports Powering ON and
\* then SSA On, clears PowerOff, and calls the cavity's power_on exactly when
\* the cavity's RFCTRL reads On; when it reads Off the actual amplitude and
\* the actual gradient stay as they were.
C22_RequestOn ==
    [][RequestOn
         => /\ InOrder(ssas'[1].reported, "Powering ON...", "SSA On")
            /\ Shown(StatusMsgs, ssas'[1].status_msg) = "SSA On"
            /\ Shown(FalseTrue, ssas'[1].off) = "False"
            /\ IF Shown(OffOn, cavities[1].rf_state_des) = "On"
               THEN cavities'[1] = power_on(cavities[1])
               ELSE /\ cavities'[1].aact = cavities[1].aact
                    /\ cavities'[1].gact = cavities[1].gact]_vars

\* the same for an RFCTRL that a client has written since the service
\* started: holds
RequestOnWrittenFlag ==
    [][RequestOn /\ cavities[1].rf_state_des \in {"Off", "On"}
         => /\ InOrder(ssas'[1].reported, "Powering ON...", "SSA On")
            /\ Shown(StatusMsgs, ssas'[1].status_msg) = "SSA On"
            /\ Shown(FalseTrue, ssas'[1].off) = "False"
            /\ IF cavities[1].rf_state_des = "On"
               THEN cavities'[1] = power_on(cavities[1])
               ELSE /\ cavities'[1].aact = cavities[1].aact
                    /\ cavities'[1].gact = cavities[1].gact]_vars

\* a request to turn off the SSA of cavity 1 made while it reads SSA On
RequestOff ==
    /\ Shown(StatusMsgs, ssas[1].status_msg) = "SSA On"
    /\ SSA_off(1, "True")

\* C23: a request to turn off an SSA that is on reports Powering Off and
\* then SSA Off, and leaves the cavity powered off (actual amplitude, its
\* mean and actual gradient 0, RF state Off) whatever the cavity's RFCTRL
\* and desired values are.
C23_RequestOff ==
    [][RequestOff
         => /\ InOrder(ssas'[1].reported, "Powering Off...", "SSA Off")
            /\ Shown(StatusMsgs, ssas'[1].status_msg) = "SSA Off"
            /\ cavities'[1].aact = 0
            /\ cavities'[1].amean = 0
            /\ cavities'[1].gact = 0
            /\ Shown(OffOn, cavities'[1].rf_state_act) = "Off"]_vars

\* the SSA has just been turned off on a cavity whose RFCTRL is On and whose
\* desired amplitude and gradient are those a client wrote
C23_Witness ==
    /\ ssas[1].reported = <<"Powering Off...", "SSA Off">>
    /\ cavities[1].rf_state_des = "On"
    /\ cavities[1].ades = 10 * Unit
    /\ cavities[1].gdes = DivLength(10 * Unit)
    /\ cavities[1].aact = 0
    /\ cavities[1].gact = 0

\* ------------------------------------------------------------------------
\* Properties of the SSA: a calibration that crashes
\* ------------------------------------------------------------------------

\* C24: a calibration that ends in the crashed outcome leaves the slopes of
\* the SSA as they were before it and reports Crash, not Complete, as the
\* calibration status.
C24_CrashKeepsSlope ==
    [][\A t \in Tasks :
          SSA_cal_resume(t) /\ Shown(CalStats, ssacal'.cal_stat) = "Crash"
              => /\ ssacal'.slope_new = ssacal.slope_new
                 /\ ssacal'.slope_old = ssacal.slope_old
                 /\ Shown(CalStatuses, ssacal'.cal_status) = "Crash"]_vars

\* ------------------------------------------------------------------------
\* Properties of the stepper: status flags
\* ------------------------------------------------------------------------

\* C25: while a move is in flight the motor reads Moving and Not Done; when
\* a move that no other move overlapped has run to its end it reads Not
\* Moving and Done, and when it has been aborted Not Moving and Not Done; the
\* motor never reads Moving and Done together.
C25_StatusFlags ==
    LET moving == Shown(MovingStrings, stepper.motor_moving)
        done == Shown(DoneStrings, stepper.motor_done)
    IN  /\ \A t \in Tasks :
              /\ Moving(t) /\ moves[t].alone
                    => moving = "Moving" /\ done = "Not Done"
              /\ moves[t].result = "done" /\ moves[t].alone
                    => moving = "Not Moving" /\ done = "Done"
              /\ moves[t].result = "aborted" /\ moves[t].alone
                    => moving = "Not Moving" /\ done = "Not Done"
        /\ ~(moving = "Moving" /\ done = "Done")

\* what the move does write: Moving while it runs, Not Moving when it has
\* returned, Done when it has run to its end (holds)
MovingFlagFollowsMove ==
    LET moving == Shown(MovingStrings, stepper.motor_moving)
        done == Shown(DoneStrings, stepper.motor_done)
    IN  \A t \in Tasks :
            /\ Moving(t) /\ moves[t].alone => moving = "Moving"
            /\ moves[t].result = "done" /\ moves[t].alone
                  => moving = "Not Moving" /\ done = "Done"
            /\ moves[t].result = "aborted" /\ moves[t].alone
                  => moving = "Not Moving"

\* ------------------------------------------------------------------------
\* Properties of the stepper: piezo feedback
\* ------------------------------------------------------------------------

\* the piezo reads Enabled and Feedback
PiezoInFeedback ==
    /\ Shown(EnableStrings, piezo.enable_stat) = "Enabled"
    /\ Shown(ModeStrings, piezo.feedback_mode_stat) = "Feedback"

\* C26: when an uninterrupted move returns with the piezo enabled and in
\* Feedback mode, the piezo voltage is its value before the move plus the
\* change of the cavity's detune over the whole move, converted to volts
\* (the voltage is kept as volts plus hertz / PIEZO_HZ_PER_VOLT).
C26_PiezoFollowsMove ==
    \A t \in Tasks :
        Uninterrupted(t) /\ PiezoInFeedback
            => piezo.voltage.hz
                 = moves[t].volt0
                     + (cavities[1].detune - moves[t].starting_detune)

\* the same once a client has written MODECTRL = Feedback and nobody has
\* written ENABLESTAT: holds
PiezoFollowsMoveWrittenMode ==
    \A t \in Tasks :
        Uninterrupted(t) /\ PiezoFeedback(piezo)
            => piezo.voltage.hz
                 = moves[t].volt0
                     + (cavities[1].detune - moves[t].starting_detune)

\* the piezo reads Disabled, or Manual
PiezoOutOfFeedback ==
    \/ Shown(EnableStrings, piezo.enable_stat) = "Disabled"
    \/ Shown(ModeStrings, piezo.feedback_mode_stat) = "Manual"

\* a step of the move coroutine of task t: its start or one of its resumptions
MoveStep(t) ==
    \/ \E d \in {1, -1} : Stepper_move(t, d)
    \/ Stepper_move_resume(t)

\* C27: no step of a move changes the piezo voltage while the piezo reads
\* Disabled or Manual, and the step on which a move returns because of an
\* abort does not change it either.
C27_PiezoLeftAlone ==
    [][\A t \in Tasks :
          MoveStep(t) /\ (PiezoOutOfFeedback \/ moves'[t].result = "aborted")
              => piezo'.voltage = piezo.voltage]_vars

\* a move in Manual mode has run to its end and changed the detune
C27_Witness ==
    \E t \in Tasks :
        /\ moves[t].result = "done" /\ moves[t].alone
        /\ piezo.feedback_mode_stat = "Manual"
        /\ piezo.enable_stat = Index(1)
        /\ cavities[1].detune # moves[t].starting_detune

\* an aborted move has changed the detune, the piezo being in Feedback mode
AbortedInFeedback ==
    \E t \in Tasks :
        /\ moves[t].result = "aborted" /\ moves[t].alone
        /\ PiezoFeedback(piezo)
        /\ cavities[1].detune # moves[t].starting_detune

\* ------------------------------------------------------------------------
\* Properties of the JT loop: the tolerance band
\* ------------------------------------------------------------------------

\* the setpoint is neither too high (setpoint * 0.9 > stable heat load) nor
\* too low (setpoint * 1.1 < stable heat load)
InTolerance(setpoint, stable) ==
    /\ ~(setpoint * 9 > stable * 10)
    /\ ~(setpoint * 11 < stable * 10)

\* C28: a trigger of the JT loop that finds the valve setpoint within the
\* tolerance band of the stable heat load changes neither liquid level and
\* leaves no loop running, however often it is repeated.
C28_InToleranceNoChange ==
    [][\A t \in Tasks :
          \/ \E v \in ValveInputsAlone :
                JT_man_pos(t, v) /\ InTolerance(v, jt'.stable_value)
          \/ \E v \in HeaterInputs :
                Heater_setpoint(t, v)
                  /\ InTolerance(jt.man_pos, jt'.stable_value)
          => ll' = ll /\ jobs'[t].pc = "idle"]_vars

\* the same for SimulacrumCM.adjust_liquid_level, whatever triggers it: holds
CMInToleranceNoChange ==
    [][\A t \in Tasks :
          /\ \/ \E v \in ValveInputs : CM_jt_valve(t, v)
             \/ \E v \in HeaterInputs : CM_heater_setpoint(t, v)
             \/ \E c \in Cavs, v \in AactInputs : CM_aact(t, c, v)
          /\ InTolerance(cm'.jt_valve_readback, cm'.jt_stable_pos)
          => /\ cm'.ds_level = cm.ds_level
             /\ cm'.us_level = cm.us_level
             /\ cmjobs'[t].pc = "idle"]_vars

\* a trigger of adjust_liquid_level has found the setpoint within the band
CMInToleranceTriggered ==
    /\ cmwrites > 0
    /\ InTolerance(cm.jt_valve_readback, cm.jt_stable_pos)
    /\ \A t \in Tasks : ~CMRunning(t)
    /\ cm.heater_mode = "MANUAL"

\* the same for the valve's putter alone
ManPosInToleranceNoChange ==
    [][\A t \in Tasks, v \in ValveInputsAlone :
          JT_man_pos(t, v) /\ InTolerance(v, jt'.stable_value)
              => ll' = ll /\ jobs'[t].pc = "idle"]_vars

\* ------------------------------------------------------------------------
\* Properties of the JT loop: live values
\* ------------------------------------------------------------------------

\* C29: a loop that went to sleep with its guard true, and wakes up to find
\* the guard false on the live setpoint and the live stable heat load (a
\* write made in between has changed them), returns without changing the
\* level again.
C29_LoopFollowsLiveValues ==
    [][\A t \in Tasks :
          Job_resume(t) /\ jobs[t].was /\ GuardFails(JobView(t), cavities)
              => ll' = ll /\ jobs'[t].pc = "idle"]_vars

\* the same for the loop of HeaterPVGroup.setpoint alone: holds
\* (SetpointLoopWoken is reachable)
SetpointLoopFollowsLiveValues ==
    [][\A t \in Tasks :
          /\ Job_resume(t) /\ jobs[t].kind = "setpoint"
          /\ jobs[t].was /\ GuardFails(JobView(t), cavities)
          => ll' = ll /\ jobs'[t].pc = "idle"]_vars

SetpointLoopWoken ==
    \E t \in Tasks :
        /\ jobs[t].kind = "setpoint" /\ jobs[t].pc = "ready" /\ jobs[t].was
        /\ GuardFails(JobView(t), cavities)

\* and for SimulacrumCM.adjust_liquid_level, on the live readback of the
\* valve and the live jt_stable_pos: holds
CMLoopFollowsLiveValues ==
    [][\A t \in Tasks :
          /\ CM_resume(t)
          /\ ~BandGuard(cmjobs[t].dir, cm.jt_valve_readback, cm.jt_stable_pos)
          => cm'.ds_level = cm.ds_level /\ cmjobs'[t].pc = "idle"]_vars

\* ------------------------------------------------------------------------
\* Properties of the heater setpoint
\* ------------------------------------------------------------------------

\* what a write of v to the heater's MANPOS_RQST, served by putter t in
\* Manual mode, leaves behind: the readback is v, the stable heat load is the
\* RF heat of the cavities plus v, the setpoint is v once the putter has
\* returned, and the level has moved as the new stable heat load demands
SetSetpointDone(t, v) ==
    LET stable == SumHeatLoad(cm_aact, <<>>, NCav) + v
        inside == 7000 < cm.ds_level /\ cm.ds_level < 10000
    IN  /\ cm'.heater_readback = v
        /\ cm'.jt_stable_pos = stable
        /\ cmjobs'[t].pc = "idle" => cm'.heater_setpoint = v
        /\ cm'.ds_level =
              IF inside /\ TooHigh(cm.jt_valve_readback, stable)
              THEN cm.ds_level - 1
              ELSE IF inside /\ TooLow(cm.jt_valve_readback, stable)
              THEN cm.ds_level + 1
              ELSE cm.ds_level

\* C30: in Manual mode a write of v to the heater setpoint ends with heater
\* value and readback v and with the stable heat load at the RF heat of the
\* current amplitudes plus v, for every v, and the JT loop is taken up
\* against that stable heat load.
C30_SetSetpointManual ==
    [][\A t \in Tasks, v \in HeaterInputs :
          CM_heater_setpoint(t, v) /\ cm.heater_mode = "MANUAL"
              => SetSetpointDone(t, v)]_vars

\* the same for the setpoints other than 0: holds (a Manual write of a
\* setpoint other than 0 is reachable, SetSetpointNonZeroServed)
SetSetpointNonZero ==
    [][\A t \in Tasks, v \in HeaterInputs \ {0} :
          CM_heater_setpoint(t, v) /\ cm.heater_mode = "MANUAL"
              => SetSetpointDone(t, v)]_vars

SetSetpointNonZeroServed ==
    \E t \in Tasks :
        /\ cmjobs[t].kind = "heater" /\ cmjobs[t].value # 0
        /\ cm.heater_mode = "MANUAL" /\ cm.heater_readback = cmjobs[t].value
        /\ cm.heater_setpoint # cmjobs[t].value

\* ------------------------------------------------------------------------
\* Properties of the level's range
\* ------------------------------------------------------------------------

\* The downstream level, in hundredths, is outside [70, 100].  The float
\* that stands at a nominal 70.00 or 100.00 after steps of 0.01 from 93.0 is
\* outside as well (see AdjustGuard); BeyondRange leaves these two out.
OutOfRange(level) == level <= 7000 \/ level >= 10000

BeyondRange(level) == level < 7000 \/ level > 10000

\* C31: with the downstream level outside [70, 100] a running JT loop halts
\* at its next pass and a newly triggered one makes no move: the level is
\* held where it is.
C31_OutOfRangeHalts ==
    [][/\ \A t \in Tasks :
             Job_resume(t) /\ BeyondRange(ll.downstream)
                 => ll' = ll /\ jobs'[t].pc = "idle"
       /\ \A t \in Tasks, v \in ValveInputs \cup ValveInputsAlone :
             JT_man_pos(t, v) /\ BeyondRange(ll.downstream)
                 => ll' = ll /\ jobs'[t].pc = "idle"
       /\ \A t \in Tasks, v \in HeaterInputs :
             Heater_setpoint(t, v) /\ BeyondRange(ll.downstream)
                 => ll' = ll /\ jobs'[t].pc = "idle"]_vars

\* the same for SimulacrumCM.adjust_liquid_level: holds (CMOutOfRangeMet is
\* reachable: a loop wakes up, or a write arrives, with the level out of
\* range)
CMOutOfRangeHalts ==
    [][/\ \A t \in Tasks :
             CM_resume(t) /\ OutOfRange(cm.ds_level)
                 => cm'.ds_level = cm.ds_level /\ cmjobs'[t].pc = "idle"
       /\ \A t \in Tasks :
             /\ \/ \E v \in ValveInputs : CM_jt_valve(t, v)
                \/ \E v \in HeaterInputs : CM_heater_setpoint(t, v)
                \/ \E c \in Cavs, v \in AactInputs : CM_aact(t, c, v)
             /\ OutOfRange(cm.ds_level)
             => cm'.ds_level = cm.ds_level /\ cmjobs'[t].pc = "idle"]_vars

CMOutOfRangeMet ==
    /\ OutOfRange(cm.ds_level)
    /\ \E t \in Tasks : cmjobs[t].pc = "ready"
    /\ TooHigh(cm.jt_valve_readback, cm.jt_stable_pos)

\* ------------------------------------------------------------------------
\* Properties of the phase
\* ------------------------------------------------------------------------

\* 0 <= x < 360
InTurn(x) == ~IsNegative(x) /\ x.deg < 360

\* x and y differ by a whole number of turns
SameAngle(x, y) == (x.deg - y.deg) % 360 = 0 /\ x.eps = y.eps

\* C32: after a write of v to PDES, PACT and PMEAN both hold v mod 360,
\* which lies in [0, 360), for every v.
C32_PhaseNormalised ==
    [][\A v \in PhaseInputs :
          Cavity_pdes(v)
              => /\ phase'.pact = phase'.pmean
                 /\ SameAngle(phase'.pact, v)
                 /\ InTurn(phase'.pact)]_vars

\* the same for the writes of whole degrees: holds (PhaseWrapped is
\* reachable: a negative phase was written)
PhaseNormalisedWhole ==
    [][\A v \in PhaseInputs :
          Cavity_pdes(v) /\ v.eps = 0
              => /\ phase'.pact = phase'.pmean
                 /\ SameAngle(phase'.pact, v)
                 /\ InTurn(phase'.pact)]_vars

PhaseWrapped == phase.pdes = Deg(-90) /\ phase.pact = Deg(270)

\* ------------------------------------------------------------------------
\* Properties of the desired values
\* ------------------------------------------------------------------------

\* the stored desired amplitude and gradient agree: one is the other
\* converted by the cavity's length
DesiredAgree(cav) ==
    cav.ades = MulLength(cav.gdes) \/ cav.gdes = DivLength(cav.ades)

\* C33: writes of the desired amplitude and gradient, power_off and
\* power_on, in any order, keep the stored desired amplitude equal to the
\* stored desired gradient times the length once they agree.
C33_DesiredStayConsistent ==
    [][DesiredAgree(cavities[1]) => DesiredAgree(cavities'[1])]_vars

\* the same while the RF is on: holds (DesiredAgreeOn is reachable)
DesiredStayConsistentOn ==
    [][/\ DesiredAgree(cavities[1])
       /\ Shown(OffOn, cavities[1].rf_state_act) = "On"
       /\ cavities[1].aact = cavities[1].ades
       /\ cavities[1].gact = cavities[1].gdes
       /\ \/ \E v \in AmpInputs : Cavity_ades(1, v)
          \/ \E g \in GradInputs : Cavity_gdes(1, g)
       => DesiredAgree(cavities'[1])]_vars

DesiredAgreeOn ==
    /\ DesiredAgree(cavities[1])
    /\ Shown(OffOn, cavities[1].rf_state_act) = "On"
    /\ cavities[1].ades = 10 * Unit

\* C34: once the downstream level has left [70, 100], no write to the JT
\* valve, to the heater setpoint or to a cavity amplitude, and no loop
\* started earlier, changes it again.
C34_OutOfRangeAbsorbing ==
    [][OutOfRange(cm.ds_level) => cm'.ds_level = cm.ds_level]_vars

\* the level has left the range, the loop that brought it there has
\* returned, a write to the JT valve has been served since, and the valve is
\* still too far open for the heat load
C34_Witness ==
    /\ OutOfRange(cm.ds_level)
    /\ \A t \in Tasks : cmjobs[t].pc = "idle"
    /\ cm.heater_setpoint = 0
    /\ cm.jt_manpos_rqst = 3000
    /\ TooHigh(cm.jt_valve_readback, cm.jt_stable_pos)

\* ------------------------------------------------------------------------
\* Properties of the SSA's request flags
\* ------------------------------------------------------------------------

\* C35: between writes, PowerOn and PowerOff are never both True, PowerOff
\* is False while the status is "SSA On" and PowerOn is False while it is
\* "SSA Off".
C35_RequestFlagsExclusive ==
    \A c \in Cavs :
        LET on == Shown(FalseTrue, ssas[c].on)
            off == Shown(FalseTrue, ssas[c].off)
            status_msg == Shown(StatusMsgs, ssas[c].status_msg)
        IN  /\ ~(on = "True" /\ off = "True")
            /\ status_msg = "SSA On" => off = "False"
            /\ status_msg = "SSA Off" => on = "False"

\* True has been written to PowerOff and the SSA went off
C35_Witness ==
    /\ ssas[1].status_msg = "SSA Off"
    /\ ssas[1].off = "True"
    /\ ssas[1].on = "False"

\* ------------------------------------------------------------------------
\* Properties of the tests of adjust_liquid_level
\* ------------------------------------------------------------------------

\* C36: for a setpoint and a stable heat load that are not negative the
\* "too high" test and the "too low" test are never both true, so a
\* lowering loop and a raising loop never both pass their test in the same
\* state.
C36_GuardsExclusive ==
    /\ \A setpoint \in GuardInputs, stable \in GuardInputs :
          ~(TooHigh(setpoint, stable) /\ TooLow(setpoint, stable))
    /\ ~(/\ TooHigh(cm.jt_valve_readback, cm.jt_stable_pos)
         /\ TooLow(cm.jt_valve_readback, cm.jt_stable_pos))
    /\ \A t \in Tasks, u \in Tasks :
          ~(/\ cmjobs[t].dir = "down" /\ CMRunning(t)
            /\ cmjobs[u].dir = "up" /\ CMRunning(u)
            /\ AdjustGuard(CMView(t))
            /\ AdjustGuard(CMView(u)))

\* a lowering loop and a raising loop are in flight, both about to take
\* their test, and the raising one passes it
C36_Witness ==
    \E t \in Tasks, u \in Tasks :
        /\ cmjobs[t].dir = "down" /\ cmjobs[t].pc = "ready"
        /\ cmjobs[u].dir = "up" /\ cmjobs[u].pc = "ready"
        /\ AdjustGuard(CMView(u))

\* ------------------------------------------------------------------------
\* Properties of the step totals
\* ------------------------------------------------------------------------

C38_PropagationEnds ==
    [][(\/ \E c \in Cavs, v \in AmpInputs : Cavity_ades(c, v)
        \/ \E c \in Cavs, g \in GradInputs : Cavity_gdes(c, g))
       => /\ \A c \in Cavs : cavities'[c].nest <= 3
          /\ \A c \in Cavs, v \in ChainInputs :
                LET cav == [cavities[c] EXCEPT !.nest = 0]
                IN  /\ AdesWrite(cav, v, MaxNest).nest <= 3
                    /\ GdesWrite(cav, v, MaxNest).nest <= 3]_vars

\* a chain of three putter calls has run
C38_Witness == \E c \in Cavs : cavities[c].nest = 3

\* ------------------------------------------------------------------------
\* Properties of the detune
\* ------------------------------------------------------------------------

\* C39: DFBEST and DF of the cavity hold the same value whenever no
\* coroutine is running: they are declared with the same value and every
\* stretch of a move, completed or aborted, writes the same detune to both.
C39_DetunesAgree ==
    \A c \in Cavs : cavities[c].detune = cavities[c].detune_rfs

\* a move has changed the detune and returns on an abort
C39_Witness ==
    /\ \A lf \in LandingFreqs : cavities[1].detune # lf
    /\ \E t \in Tasks : moves[t].result = "aborted"

=========================================================================
